---- MODULE Spec2Model ----
(***************************************************************************)
(* Model of the Mini-LISP interpreter of src/lisptest2.py: the grammar     *)
(* actions that build the AST (p_exp .. p_exp_list) and the tree-walking   *)
(* evaluator postorder with its three module-level globals env, parms and  *)
(* args and the per-node value slot it mutates in place.                   *)
(***************************************************************************)
EXTENDS Integers, Sequences, FiniteSets, TLC

(***************************************************************************)
(* Runtime values.  A Python value held in a node's value slot, in env or  *)
(* in args is None, an int, a bool or a reference to a FunNode object.     *)
(* All four share one record shape; f is the identity of the FunNode (its  *)
(* position in the parsed program).                                        *)
(***************************************************************************)
None == [t |-> "none", n |-> 0, b |-> FALSE, f |-> <<>>]

IntV(i) == [t |-> "int", n |-> i, b |-> FALSE, f |-> <<>>]

BoolV(x) == [t |-> "bool", n |-> 0, b |-> x, f |-> <<>>]

FunRef(id) == [t |-> "fun", n |-> 0, b |-> FALSE, f |-> id]

\* bool is a subclass of int in Python: True is 1 and False is 0 in arithmetic.
IsNum(v) == v.t \in {"int", "bool"}

NumOf(v) == IF v.t = "bool" THEN (IF v.b THEN 1 ELSE 0) ELSE v.n

\* Python truth value: None and 0 and False are false, any object is true.
Truthy(v) ==
    CASE v.t = "none" -> FALSE
      [] v.t = "int" -> v.n # 0
      [] v.t = "bool" -> v.b
      [] OTHER -> TRUE

\* Python == on these values: numbers compare by number (True == 1), None
\* equals only None, a FunNode equals only itself.
PyEq(a, b) ==
    CASE IsNum(a) /\ IsNum(b) -> NumOf(a) = NumOf(b)
      [] a.t = "none" /\ b.t = "none" -> TRUE
      [] a.t = "fun" /\ b.t = "fun" -> a.f = b.f
      [] OTHER -> FALSE

Abs(i) == IF i < 0 THEN 0 - i ELSE i

\* C remainder of a by b (b # 0): truncated, sign of a.
CRem(a, b) == IF a < 0 THEN 0 - (Abs(a) % Abs(b)) ELSE Abs(a) % Abs(b)

\* C quotient of a by b (b # 0): truncated toward zero.
CQuot(a, b) ==
    IF (a < 0) = (b < 0) THEN Abs(a) \div Abs(b) ELSE 0 - (Abs(a) \div Abs(b))

\* A faulty //: the quotient truncated toward zero, as C computes it.
PyFloorDivBad(a, b) == CQuot(a, b)

\* int // int as CPython computes it: the truncated quotient, lowered by one
\* when the remainder is non-zero and its sign differs from the divisor's.
PyFloorDiv(a, b) ==
    IF CRem(a, b) # 0 /\ ((CRem(a, b) < 0) # (b < 0))
    THEN CQuot(a, b) - 1
    ELSE CQuot(a, b)

\* int % int as CPython computes it: the truncated remainder, moved by the
\* divisor when it is non-zero and its sign differs from the divisor's.
PyMod(a, b) ==
    IF CRem(a, b) # 0 /\ ((CRem(a, b) < 0) # (b < 0))
    THEN CRem(a, b) + b
    ELSE CRem(a, b)

(***************************************************************************)
(* Grammar symbols and AST nodes.  A symbol value p[i] is a token value    *)
(* (a str, an int, a bool), a Python list of nodes, or a node.             *)
(***************************************************************************)
Str(s) == [kind |-> "str", s |-> s]

IntTok(i) == [kind |-> "int", value |-> IntV(i)]

BoolTok(x) == [kind |-> "bool", value |-> BoolV(x)]

PyList(items) == [kind |-> "list", items |-> items]

NumberNode(value) == [kind |-> "Number", value |-> value]

BoolNode(value) == [kind |-> "Bool", value |-> value]

IdentifierNode(name) == [kind |-> "Identifier", name |-> name]

DefineNode(identifier, value) ==
    [kind |-> "Define", identifier |-> identifier, value |-> value]

PrintNode(value, is_num) == [kind |-> "Print", value |-> value, is_num |-> is_num]

BinaryOpNode(operator, left, right) ==
    [kind |-> "BinaryOp", operator |-> operator, left |-> left, right |-> right]

LogicalOpNode(operator, operands) ==
    [kind |-> "LogicalOp", operator |-> operator, operands |-> operands]

IfNode(condition, true_branch, false_branch) ==
    [kind |-> "If", condition |-> condition, true_branch |-> true_branch,
     false_branch |-> false_branch]

FunNode(params, body) == [kind |-> "Fun", params |-> params, body |-> body]

FunCallNode(function, arguments) ==
    [kind |-> "FunCall", function |-> function, arguments |-> arguments]

\* len(p) of a production whose right-hand side has the symbols p[1..]:
\* ply's p also holds the slot p[0] of the result.
PLen(p) == Len(p) + 1

\* exp : NUMBER | BOOL | num_op | ... | ID.  isinstance(p[1], int) is also
\* true of a bool, so a BOOL token becomes a NumberNode holding the bool.
p_exp(p) ==
    CASE p[1].kind \in {"int", "bool"} -> NumberNode(p[1].value)
      [] p[1].kind = "str" -> IdentifierNode(p[1])
      [] OTHER -> p[1]

p_define_stmt(p) == DefineNode(IdentifierNode(p[3]), p[4])

p_print_stmt(p) ==
    IF p[2].s = "print-num" THEN PrintNode(p[3], TRUE) ELSE PrintNode(p[3], FALSE)

p_num_op(p) == BinaryOpNode(p[2].s, p[3], p[4])

p_logical_op(p) ==
    IF p[2].s = "not"
    THEN LogicalOpNode(p[2].s, <<p[3]>>)
    ELSE LogicalOpNode(p[2].s, <<p[3]>> \o p[4].items)

p_if_exp(p) == IfNode(p[3], p[4], p[5])

p_fun_exp(p) ==
    IF PLen(p) = 8 THEN FunNode(p[4].items, p[6]) ELSE FunNode(<<>>, p[5])

\* fun_call : ( fun_exp exp_list ) | ( fun_exp ) | ( ID exp_list ) | ( ID ).
\* In the second test p[2] is compared with the str 'fun'; a FunNode never
\* equals a str, and the lexer never gives an ID token the lexeme fun.
p_fun_call(p) ==
    IF PLen(p) = 5 /\ p[2].kind = "Fun" THEN FunCallNode(p[2], p[3])
    ELSE IF PLen(p) = 4 /\ p[2].kind = "str" /\ p[2].s = "fun"
    THEN FunCallNode(p[2], PyList(<<>>))
    ELSE IF PLen(p) = 5 THEN FunCallNode(IdentifierNode(p[2]), p[3])
    ELSE FunCallNode(IdentifierNode(p[2]), PyList(<<>>))

p_id_list(p) ==
    IF PLen(p) = 2 THEN PyList(<<p[1].s>>) ELSE PyList(<<p[1].s>> \o p[2].items)

p_exp_list(p) ==
    IF PLen(p) = 2 THEN PyList(<<p[1]>>) ELSE PyList(<<p[1]>> \o p[2].items)

(***************************************************************************)
(* The program state.  ast is the parsed program as far as it has been     *)
(* evaluated (the list postorder iterates over); env, parms and args are   *)
(* the module's three globals; val holds the value slot of every node that *)
(* has been assigned one; out is standard output, one entry per line; err  *)
(* is the uncaught Python exception that ended the run, or "none".         *)
(* trace and env0 observe the evaluation of the latest statement: the      *)
(* nodes postorder entered and left, in order, the function bodies it      *)
(* evaluated and the calls it completed, and the environment the           *)
(* statement started from.                                                 *)
(***************************************************************************)
VARIABLES ast, env, parms, args, val, out, err, trace, env0

vars == <<ast, env, parms, args, val, out, err, trace, env0>>

EmptyEnv == [x \in {} |-> None]

Child(node, i) ==
    CASE node.kind = "list" -> node.items[i]
      [] node.kind = "Define" -> IF i = 1 THEN node.identifier ELSE node.value
      [] node.kind = "Print" -> node.value
      [] node.kind = "BinaryOp" -> IF i = 1 THEN node.left ELSE node.right
      [] node.kind = "LogicalOp" -> node.operands[i]
      [] node.kind = "If" ->
            IF i = 1 THEN node.condition
            ELSE IF i = 2 THEN node.true_branch ELSE node.false_branch
      [] node.kind = "Fun" -> node.body
      [] node.kind = "FunCall" ->
            IF i = 1 THEN node.function ELSE node.arguments.items[i - 1]

RECURSIVE NodeAt(_, _)
NodeAt(node, path) ==
    IF path = <<>> THEN node ELSE NodeAt(Child(node, Head(path)), Tail(path))

\* The node object with identity id: statement id[1] of the program, then
\* the children along the rest of id.
NodeOf(st, id) == NodeAt(PyList(st.ast), id)

\* node.value of an expression node: the slot __init__ set (the literal of
\* a NumberNode, None otherwise) until postorder assigns it.
ValueOf(st, id) ==
    IF id \in DOMAIN st.val THEN st.val[id]
    ELSE IF NodeOf(st, id).kind \in {"Number", "Bool"} THEN NodeOf(st, id).value
    ELSE None

SetVal(st, id, v) ==
    [st EXCEPT !.val = [x \in (DOMAIN @) \cup {id} |-> IF x = id THEN v ELSE @[x]]]

Raise(st, e) == [st EXCEPT !.err = e]

Log(st, e) == [st EXCEPT !.trace = Append(@, e)]

\* name in env: env's keys are str, and a key that is not a str (the
\* FunNode p_fun_call can wrap in an IdentifierNode) equals none of them.
NameInEnv(name, e) == name.kind = "str" /\ name.s \in DOMAIN e

EnvSet(e, k, v) == [x \in (DOMAIN e) \cup {k} |-> IF x = k THEN v ELSE e[x]]

(***************************************************************************)
(* What print writes.  A line is the sequence of its pieces: for an int    *)
(* an optional "-" and the decimal digits, else one word.                  *)
(***************************************************************************)
DigitChar(d) == <<"0", "1", "2", "3", "4", "5", "6", "7", "8", "9">>[d + 1]

RECURSIVE Digits(_)
Digits(i) == IF i < 10 THEN <<DigitChar(i)>> ELSE Digits(i \div 10) \o <<DigitChar(i % 10)>>

\* str(v) as print(v) writes it.
PyStr(v) ==
    CASE v.t = "none" -> <<"None">>
      [] v.t = "bool" -> IF v.b THEN <<"True">> ELSE <<"False">>
      [] v.t = "int" -> IF v.n < 0 THEN <<"-">> \o Digits(0 - v.n) ELSE Digits(v.n)
      [] OTHER -> <<"<FunNode object>">>

PrintLine(v, is_num) ==
    IF is_num THEN PyStr(v) ELSE IF Truthy(v) THEN <<"#t">> ELSE <<"#f">>

(***************************************************************************)
(* The reductions of the BinaryOpNode and LogicalOpNode branches.          *)
(***************************************************************************)
RECURSIVE SumLoop(_, _, _)
\* sum = 0; for num in node.right: sum += num.value
SumLoop(sum, vals, k) ==
    IF k > Len(vals) THEN sum ELSE SumLoop(sum + NumOf(vals[k]), vals, k + 1)

RECURSIVE ProductLoop(_, _, _)
\* product = 1; for num in node.right: product *= num.value
ProductLoop(product, vals, k) ==
    IF k > Len(vals) THEN product
    ELSE ProductLoop(product * NumOf(vals[k]), vals, k + 1)

RECURSIVE EqualLoop(_, _, _)
\* flag = True; for num in node.right: if left != num.value: flag = False; break
EqualLoop(left, vals, k) ==
    IF k > Len(vals) THEN TRUE
    ELSE IF ~PyEq(left, vals[k]) THEN FALSE
    ELSE EqualLoop(left, vals, k + 1)

AllNum(vals) == \A k \in 1..Len(vals) : IsNum(vals[k])

RECURSIVE AndLoop(_, _, _)
\* for operand in node.operands: if flag == False: break
\*                               flag = flag and operand.value
AndLoop(flag, vals, k) ==
    IF k > Len(vals) THEN flag
    ELSE IF PyEq(flag, BoolV(FALSE)) THEN flag
    ELSE AndLoop(IF Truthy(flag) THEN vals[k] ELSE flag, vals, k + 1)

RECURSIVE OrLoop(_, _, _)
\* for operand in node.operands: if flag == True: break
\*                               flag = flag or operand.value
OrLoop(flag, vals, k) ==
    IF k > Len(vals) THEN flag
    ELSE IF PyEq(flag, BoolV(TRUE)) THEN flag
    ELSE OrLoop(IF Truthy(flag) THEN flag ELSE vals[k], vals, k + 1)

\* node.true_branch.value if node.condition.value else node.false_branch.value
IfSelect(c, t, f) == IF Truthy(c) THEN t ELSE f

\* The value and the exception of one binary operator applied to the value
\* of the left operand and the value(s) of the right: [v, e].  isList says
\* whether node.right is a list (+, * and =) or one node.
BinaryResult(operator, l, rs, isList) ==
    LET r == rs[1]
        ok(v) == [v |-> v, e |-> "none"]
        typeError == [v |-> None, e |-> "TypeError"]
        zeroDiv == [v |-> None, e |-> "ZeroDivisionError"]
    IN  CASE operator = "+" ->
               IF isList
               THEN IF AllNum(rs) /\ IsNum(l)
                    THEN ok(IntV(NumOf(l) + SumLoop(0, rs, 1))) ELSE typeError
               ELSE IF IsNum(l) /\ IsNum(r)
                    THEN ok(IntV(NumOf(l) + NumOf(r))) ELSE typeError
          [] operator = "-" ->
               IF IsNum(l) /\ IsNum(r) THEN ok(IntV(NumOf(l) - NumOf(r))) ELSE typeError
          [] operator = "*" ->
               IF isList
               THEN IF AllNum(rs) /\ IsNum(l)
                    THEN ok(IntV(NumOf(l) * ProductLoop(1, rs, 1))) ELSE typeError
               ELSE IF IsNum(l) /\ IsNum(r)
                    THEN ok(IntV(NumOf(l) * NumOf(r))) ELSE typeError
          [] operator = "/" ->
               IF ~(IsNum(l) /\ IsNum(r)) THEN typeError
               ELSE IF NumOf(r) = 0 THEN zeroDiv
               ELSE ok(IntV(PyFloorDiv(NumOf(l), NumOf(r))))
          [] operator = "mod" ->
               IF ~(IsNum(l) /\ IsNum(r)) THEN typeError
               ELSE IF NumOf(r) = 0 THEN zeroDiv
               ELSE ok(IntV(PyMod(NumOf(l), NumOf(r))))
          [] operator = ">" ->
               IF IsNum(l) /\ IsNum(r) THEN ok(BoolV(NumOf(l) > NumOf(r))) ELSE typeError
          [] operator = "<" ->
               IF IsNum(l) /\ IsNum(r) THEN ok(BoolV(NumOf(l) < NumOf(r))) ELSE typeError
          [] operator = "=" ->
               IF isList THEN ok(BoolV(EqualLoop(l, rs, 1))) ELSE ok(BoolV(PyEq(l, r)))

(***************************************************************************)
(* postorder.  An evaluation state st is a record of the program state     *)
(* plus callee, which tells the FunNode branch that it was entered from    *)
(* the FunCallNode branch (the node is being called) and not as a plain    *)
(* expression.  Once st.err is set the exception unwinds: every later      *)
(* step leaves st alone.                                                   *)
(***************************************************************************)
RECURSIVE postorder(_, _)
RECURSIVE PostorderEach(_, _, _, _)
RECURSIVE EvalArguments(_, _, _)

\* for n in <children first..last of id>: postorder(n)
PostorderEach(id, first, last, st) ==
    IF first > last THEN st
    ELSE PostorderEach(id, first + 1, last, postorder(id \o <<first>>, st))

\* The values of the children first..last of id, in order.
ValuesOf(st, id, first, last) ==
    [k \in 1..(last - first + 1) |-> ValueOf(st, id \o <<first + k - 1>>)]

\* isinstance(node, list): for n in node: postorder(n)
ListBranch(id, st) == PostorderEach(id, 1, Len(NodeOf(st, id).items), st)

\* if node.name in env: node.value = env[node.name]
IdentifierBranch(id, st) ==
    LET node == NodeOf(st, id)
        found == NameInEnv(node.name, st.env)
        s0 == Log(st, [ev |-> "lookup", id |-> id, found |-> found])
    IN  IF found THEN SetVal(s0, id, s0.env[node.name.s]) ELSE s0

DefineBranch(id, st) ==
    LET node == NodeOf(st, id)
        s1 == postorder(id \o <<1>>, st)
        s2 == postorder(id \o <<2>>, s1)
        s3 == SetVal(s2, id \o <<1>>, ValueOf(s2, id \o <<2>>))
    IN  IF s2.err # "none" THEN s2
        ELSE [s3 EXCEPT !.env = EnvSet(@, node.identifier.name.s,
                                        ValueOf(s3, id \o <<1>>))]

PrintBranch(id, st) ==
    LET node == NodeOf(st, id)
        s1 == postorder(id \o <<1>>, st)
    IN  IF s1.err # "none" THEN s1
        ELSE [s1 EXCEPT !.out = Append(@, PrintLine(ValueOf(s1, id \o <<1>>),
                                                    node.is_num))]

BinaryOpBranch(id, st) ==
    LET node == NodeOf(st, id)
        s1 == postorder(id \o <<1>>, st)
        s2 == postorder(id \o <<2>>, s1)
        isList == node.right.kind = "list"
        rs == IF isList
              THEN ValuesOf(s2, id \o <<2>>, 1, Len(node.right.items))
              ELSE <<ValueOf(s2, id \o <<2>>)>>
        r == BinaryResult(node.operator, ValueOf(s2, id \o <<1>>), rs, isList)
    IN  IF s2.err # "none" THEN s2
        ELSE IF r.e # "none" THEN Raise(s2, r.e)
        ELSE SetVal(s2, id, r.v)

\* A faulty LogicalOpNode branch: short-circuit evaluation, which stops at
\* the first operand that decides an and/or.
LogicalOpBranchShort(id, st) ==
    LET node == NodeOf(st, id)
        n == Len(node.operands)
        s1 == postorder(id \o <<1>>, st)
        v1 == ValueOf(s1, id \o <<1>>)
        decided == \/ node.operator = "and" /\ ~Truthy(v1)
                   \/ node.operator = "or" /\ Truthy(v1)
        s2 == PostorderEach(id, 2, n, s1)
        vals == ValuesOf(s2, id, 1, n)
    IN  IF s1.err # "none" THEN s1
        ELSE IF decided THEN SetVal(s1, id, v1)
        ELSE IF s2.err # "none" THEN s2
        ELSE IF node.operator = "and" THEN SetVal(s2, id, AndLoop(BoolV(TRUE), vals, 1))
        ELSE IF node.operator = "or" THEN SetVal(s2, id, OrLoop(BoolV(FALSE), vals, 1))
        ELSE SetVal(s2, id, BoolV(~Truthy(vals[1])))

LogicalOpBranch(id, st) ==
    LET node == NodeOf(st, id)
        n == Len(node.operands)
        s1 == PostorderEach(id, 1, n, st)
        vals == ValuesOf(s1, id, 1, n)
    IN  IF s1.err # "none" THEN s1
        ELSE IF node.operator = "and" THEN SetVal(s1, id, AndLoop(BoolV(TRUE), vals, 1))
        ELSE IF node.operator = "or" THEN SetVal(s1, id, OrLoop(BoolV(FALSE), vals, 1))
        ELSE IF node.operator = "not" THEN SetVal(s1, id, BoolV(~Truthy(vals[1])))
        ELSE s1

IfBranch(id, st) ==
    LET s1 == postorder(id \o <<1>>, st)
        s2 == postorder(id \o <<2>>, s1)
        s3 == postorder(id \o <<3>>, s2)
    IN  IF s3.err # "none" THEN s3
        ELSE SetVal(s3, id, IfSelect(ValueOf(s3, id \o <<1>>),
                                     ValueOf(s3, id \o <<2>>),
                                     ValueOf(s3, id \o <<3>>)))

RECURSIVE BindParams(_, _, _, _)
\* for i in range(len(parms)): env[parms[i]] = args[i]
BindParams(e, ps, as, i) ==
    IF i > Len(ps) THEN e ELSE BindParams(EnvSet(e, ps[i], as[i]), ps, as, i + 1)

\* A faulty restore: the callee's bindings are left in place.
RestoreEnvBad(current, env_copy) == current

\* env.clear(); env.update(env_copy)
RestoreEnv(current, env_copy) == env_copy

FunBranch(id, st) ==
    LET node == NodeOf(st, id)
        called == st.callee
        s0 == [st EXCEPT !.callee = FALSE]
        s1 == [s0 EXCEPT !.parms = node.params]
        env_copy == s1.env
        s2 == Log([s1 EXCEPT !.env = BindParams(EmptyEnv, s1.parms, s1.args, 1)],
                  [ev |-> "body", id |-> id, env |-> BindParams(EmptyEnv, s1.parms, s1.args, 1),
                   called |-> called])
        s3 == postorder(id \o <<1>>, s2)
        s4 == [s3 EXCEPT !.env = RestoreEnv(@, env_copy)]
        t2 == Log(s0, [ev |-> "body", id |-> id, env |-> s0.env, called |-> called])
        t3 == postorder(id \o <<1>>, t2)
        done == IF Len(node.params) > 0
                THEN IF Len(s1.parms) = Len(s1.args)
                     THEN IF s3.err # "none" THEN s3
                          ELSE SetVal(s4, id, ValueOf(s4, id \o <<1>>))
                     ELSE SetVal(s1, id, FunRef(id))
                ELSE IF t3.err # "none" THEN t3
                     ELSE SetVal(t3, id, ValueOf(t3, id \o <<1>>))
    IN  IF done.err # "none" THEN done
        ELSE Log(done, [ev |-> "fun", id |-> id, called |-> called,
                        v |-> ValueOf(done, id)])

\* for arg in node.arguments: postorder(arg); args.append(arg.value)
EvalArguments(id, k, st) ==
    LET n == Len(NodeOf(st, id).arguments.items)
        s1 == postorder(id \o <<k + 1>>, st)
        s2 == [s1 EXCEPT !.args = Append(@, ValueOf(s1, id \o <<k + 1>>))]
    IN  IF k > n THEN st
        ELSE IF s1.err # "none" THEN s1
        ELSE EvalArguments(id, k + 1, s2)

\* postorder(node.function.value): a value that is no node matches none of
\* postorder's isinstance tests.
PostorderValue(v, st) == IF v.t = "fun" THEN postorder(v.f, st) ELSE st

FunCallBranch(id, st) ==
    LET node == NodeOf(st, id)
        n == Len(node.arguments.items)
        s1 == [st EXCEPT !.args = <<>>]
        s2 == EvalArguments(id, 1, s1)
        \* callee is a FunNode
        a3 == postorder(id \o <<1>>, [s2 EXCEPT !.callee = TRUE])
        a4 == SetVal(a3, id, ValueOf(a3, id \o <<1>>))
        \* callee is an IdentifierNode
        fv == s2.env[node.function.name.s]
        b3 == SetVal(s2, id \o <<1>>, fv)
        b4 == [PostorderValue(fv, [b3 EXCEPT !.callee = TRUE]) EXCEPT !.callee = FALSE]
        b5 == IF fv.t = "fun" THEN SetVal(b4, id, ValueOf(b4, fv.f))
              ELSE SetVal(b4, id, fv)
        isLit == node.function.kind = "Fun"
        bound == ~isLit /\ NameInEnv(node.function.name, s2.env)
        target == IF isLit THEN id \o <<1>>
                  ELSE IF bound /\ fv.t = "fun" THEN fv.f ELSE <<>>
        done == IF isLit THEN (IF a3.err # "none" THEN a3 ELSE a4)
                ELSE IF bound THEN (IF b4.err # "none" THEN b4 ELSE b5)
                ELSE s2
    IN  IF s2.err # "none" THEN s2
        ELSE IF done.err # "none" THEN done
        ELSE Log(done, [ev |-> "call", id |-> id, v |-> ValueOf(done, id),
                        env0 |-> st.env, env |-> done.env,
                        argvals |-> ValuesOf(s2, id, 2, n + 1),
                        target |-> target, argsDone |-> Len(s2.trace)])

Dispatch(id, st) ==
    LET kind == NodeOf(st, id).kind
    IN  CASE kind = "list" -> ListBranch(id, st)
          [] kind = "Number" -> st
          [] kind = "Bool" -> st
          [] kind = "Identifier" -> IdentifierBranch(id, st)
          [] kind = "Define" -> DefineBranch(id, st)
          [] kind = "Print" -> PrintBranch(id, st)
          [] kind = "BinaryOp" -> BinaryOpBranch(id, st)
          [] kind = "LogicalOp" -> LogicalOpBranch(id, st)
          [] kind = "If" -> IfBranch(id, st)
          [] kind = "Fun" -> FunBranch(id, st)
          [] kind = "FunCall" -> FunCallBranch(id, st)

HasValueSlot(kind) == kind \notin {"list", "Define", "Print"}

postorder(id, st) ==
    LET s0 == Log(st, [ev |-> "enter", id |-> id])
        s1 == Dispatch(id, s0)
    IN  IF st.err # "none" THEN st
        ELSE IF s1.err # "none" THEN s1
        ELSE Log(s1, [ev |-> "exit", id |-> id,
                      v |-> IF HasValueSlot(NodeOf(st, id).kind)
                            THEN ValueOf(s1, id) ELSE None])

(***************************************************************************)
(* Programs.  The statements below are derivations of the grammar: each    *)
(* is built by the grammar actions from token values, as the parser        *)
(* builds it from the text quoted beside it.                               *)
(***************************************************************************)
LP == Str("(")

RP == Str(")")

Num(i) == p_exp(<<IntTok(i)>>)

Bool(x) == p_exp(<<BoolTok(x)>>)

Id(s) == p_exp(<<Str(s)>>)

RECURSIVE ExpList(_)
ExpList(es) ==
    IF Len(es) = 1 THEN p_exp_list(<<es[1]>>)
    ELSE p_exp_list(<<es[1], ExpList(Tail(es))>>)

RECURSIVE IdList(_)
IdList(ids) ==
    IF Len(ids) = 1 THEN p_id_list(<<Str(ids[1])>>)
    ELSE p_id_list(<<Str(ids[1]), IdList(Tail(ids))>>)

FunExp(params, body) ==
    IF params = <<>>
    THEN p_fun_exp(<<LP, Str("fun"), LP, RP, body, RP>>)
    ELSE p_fun_exp(<<LP, Str("fun"), LP, IdList(params), RP, body, RP>>)

Fun(params, body) == p_exp(<<FunExp(params, body)>>)

\* ( callee exp ... ) with callee a fun_exp or the str of an ID token.
Call(callee, es) ==
    IF es = <<>>
    THEN p_exp(<<p_fun_call(<<LP, callee, RP>>)>>)
    ELSE p_exp(<<p_fun_call(<<LP, callee, ExpList(es), RP>>)>>)

\* ( + | * | = exp exp ... )
OpN(o, l, rs) == p_exp(<<p_num_op(<<LP, Str(o), l, ExpList(rs), RP>>)>>)

\* ( - | / | mod | > | < exp exp )
Op2(o, l, r) == p_exp(<<p_num_op(<<LP, Str(o), l, r, RP>>)>>)

\* ( and | or exp exp ... )
LogN(o, l, rs) == p_exp(<<p_logical_op(<<LP, Str(o), l, ExpList(rs), RP>>)>>)

Not(e) == p_exp(<<p_logical_op(<<LP, Str("not"), e, RP>>)>>)

If(c, t, f) == p_exp(<<p_if_exp(<<LP, Str("if"), c, t, f, RP>>)>>)

Define(name, e) == p_define_stmt(<<LP, Str("define"), Str(name), e, RP>>)

PrintNum(e) == p_print_stmt(<<LP, Str("print-num"), e, RP>>)

PrintBool(e) == p_print_stmt(<<LP, Str("print-bool"), e, RP>>)

\* (fun (a) (+ a 1))
Inc == Fun(<<"a">>, OpN("+", Id("a"), <<Num(1)>>))

DefineStmts ==
    { Define("y", Num(5)),                                \* (define y 5)
      Define("f", Inc),                                   \* (define f (fun (a) (+ a 1)))
      Define("z", Fun(<<>>, Id("y"))),                    \* (define z (fun () y))
      Define("r", Id("q")) }                              \* (define r q)

PrintStmts ==
    { PrintNum(Call(Str("z"), <<>>)),                     \* (print-num (z))
      PrintNum(Call(Str("f"), <<Num(1), Num(2)>>)),       \* (print-num (f 1 2))
      \* (print-num ((fun (a b) (- a b)) 1 (f 7)))
      PrintNum(Call(FunExp(<<"a", "b">>, Op2("-", Id("a"), Id("b"))),
                    <<Num(1), Call(Str("f"), <<Num(7)>>)>>)),
      \* (print-num ((fun (x) ((fun (w) (+ w 1)) x)) 3))
      PrintNum(Call(FunExp(<<"x">>,
                           Call(FunExp(<<"w">>, OpN("+", Id("w"), <<Num(1)>>)),
                                <<Id("x")>>)),
                    <<Num(3)>>)),
      PrintNum(Id("q")),                                  \* (print-num q)
      PrintNum(Call(Str("y"), <<Num(1)>>)),               \* (print-num (y 1))
      \* (print-bool (and #f (> (f 1) 0)))
      PrintBool(LogN("and", Bool(FALSE),
                     <<Op2(">", Call(Str("f"), <<Num(1)>>), Num(0))>>)),
      \* (print-bool (or (= y 5) #t (< 1 0)))
      PrintBool(LogN("or", OpN("=", Id("y"), <<Num(5)>>),
                     <<Bool(TRUE), Op2("<", Num(1), Num(0))>>)),
      \* (print-num (if (> y 3) 1 (f 2)))
      PrintNum(If(Op2(">", Id("y"), Num(3)), Num(1), Call(Str("f"), <<Num(2)>>))),
      PrintNum(Call(FunExp(<<>>, Num(5)), <<>>)),         \* (print-num ((fun () 5)))
      \* (print-bool (and y (not r)))
      PrintBool(LogN("and", Id("y"), <<Not(Id("r"))>>)),
      \* (print-num ((fun (x) (+ x y)) 3))
      PrintNum(Call(FunExp(<<"x">>, OpN("+", Id("x"), <<Id("y")>>)), <<Num(3)>>)) }

ExpStmts ==
    { Call(FunExp(<<"a">>, Id("a")), <<Num(1), Num(2)>>), \* ((fun (a) a) 1 2)
      Call(Str("f"), <<Call(Str("f"), <<Num(1)>>)>>),     \* (f (f 1))
      \* ((fun (x) (f x)) 3)
      Call(FunExp(<<"x">>, Call(Str("f"), <<Id("x")>>)), <<Num(3)>>) }

MaxStmts == 3

Init ==
    /\ ast = <<>>
    /\ env = EmptyEnv
    /\ parms = <<>>
    /\ args = <<>>
    /\ val = [x \in {} |-> None]
    /\ out = <<>>
    /\ err = "none"
    /\ trace = <<>>
    /\ env0 = EmptyEnv

\* One iteration of postorder's loop over the program: for n in node:
\* postorder(n), with n the next statement.  An uncaught exception ends
\* the run, so a statement is evaluated only while err is "none".
Step(stmt) ==
    LET st == [ast |-> Append(ast, stmt), env |-> env, parms |-> parms,
               args |-> args, val |-> val, out |-> out, err |-> err,
               trace |-> <<>>, callee |-> FALSE]
    IN  \E s1 \in {postorder(<<Len(ast) + 1>>, st)} :
            /\ ast' = s1.ast
            /\ env' = s1.env
            /\ parms' = s1.parms
            /\ args' = s1.args
            /\ val' = s1.val
            /\ out' = s1.out
            /\ err' = s1.err
            /\ trace' = s1.trace
            /\ env0' = env

EvalDefine ==
    /\ err = "none"
    /\ Len(ast) < MaxStmts
    /\ \E stmt \in DefineStmts : Step(stmt)

EvalPrint ==
    /\ err = "none"
    /\ Len(ast) < MaxStmts
    /\ \E stmt \in PrintStmts : Step(stmt)

EvalExp ==
    /\ err = "none"
    /\ Len(ast) < MaxStmts
    /\ \E stmt \in ExpStmts : Step(stmt)

\* Programs of one arithmetic statement, ( / a b ) or ( mod a b ), over the
\* integer literals -MaxInt .. MaxInt.
MaxInt == 4

MaxArith == 1

Operands == (0 - MaxInt)..MaxInt

EvalDivide ==
    /\ err = "none"
    /\ Len(ast) < MaxArith
    /\ \E a \in Operands, b \in Operands : Step(Op2("/", Num(a), Num(b)))

EvalMod ==
    /\ err = "none"
    /\ Len(ast) < MaxArith
    /\ \E a \in Operands, b \in Operands : Step(Op2("mod", Num(a), Num(b)))

NextArith == EvalDivide \/ EvalMod

SpecArith == Init /\ [][NextArith]_vars

Next == EvalDefine \/ EvalPrint \/ EvalExp

Spec == Init /\ [][Next]_vars

(***************************************************************************)
(* Reading the observations of the latest statement.                       *)
(***************************************************************************)
TraceIdx == 1..Len(trace)

IsEv(i, kind) == trace[i].ev = kind

\* The node of the program with identity id.
Node(id) == NodeAt(PyList(ast), id)

\* The function literal a call node was written with, whichever node
\* p_fun_call wrapped it in; NoLiteral for a call of a name.
NoLiteral == [kind |-> "none"]

WrittenLiteral(call) ==
    IF call.function.kind = "Fun" THEN call.function
    ELSE IF call.function.kind = "Identifier" /\ call.function.name.kind = "Fun"
    THEN call.function.name
    ELSE NoLiteral

\* The call node's callee is the name of an identifier.
NamedCallee(call) ==
    call.function.kind = "Identifier" /\ call.function.name.kind = "str"

\* The index at which the evaluation that exit event j ends was entered.
StartOf(j) ==
    CHOOSE i \in 1..(j - 1) :
        /\ IsEv(i, "enter") /\ trace[i].id = trace[j].id
        /\ \A m \in (i + 1)..(j - 1) : ~(IsEv(m, "enter") /\ trace[m].id = trace[j].id)

\* The indices strictly between lo and hi of the events of one kind on node id.
Between(kind, id, lo, hi) ==
    {m \in (lo + 1)..(hi - 1) : IsEv(m, kind) /\ trace[m].id = id}

Only(S) == CHOOSE m \in S : TRUE

\* The value the latest evaluation of node id left on it.
LastExitValue(id) ==
    trace[CHOOSE i \in TraceIdx :
            /\ IsEv(i, "exit") /\ trace[i].id = id
            /\ \A m \in (i + 1)..Len(trace) : ~(IsEv(m, "exit") /\ trace[m].id = id)].v

DefinedNames ==
    {ast[k].identifier.name.s : k \in {m \in 1..Len(ast) : ast[m].kind = "Define"}}

\* C1: a call of a function (a function literal, or a name bound to a
\* function) whose number of argument expressions differs from the
\* function's number of parameters does not complete with a value for the
\* statement to go on with: the run ends with an error.
C1_ArityMismatchFails ==
    \A i \in TraceIdx :
        (/\ IsEv(i, "call") /\ trace[i].target # <<>>
         /\ Len(trace[i].argvals) # Len(Node(trace[i].target).params))
            => err # "none"

\* C2: whenever a function body is evaluated, whatever the function's
\* parameter count, the environment holds exactly the function's parameters,
\* so no top-level define is visible in the body.
C2_BodySeesOnlyParameters ==
    \A i \in TraceIdx :
        IsEv(i, "body")
            => DOMAIN trace[i].env =
                  {Node(trace[i].id).params[k] : k \in 1..Len(Node(trace[i].id).params)}

\* C3: a function literal evaluated outside the callee position of a call
\* yields itself as a function value, and its body is not evaluated.
C3_FunLiteralYieldsItself ==
    /\ \A i \in TraceIdx :
          (IsEv(i, "fun") /\ ~trace[i].called) => trace[i].v = FunRef(trace[i].id)
    /\ \A i \in TraceIdx : IsEv(i, "body") => trace[i].called

\* C4: a completed call with n argument expressions of a function with n
\* parameters evaluated the body with the i-th parameter bound to the value
\* of the i-th argument expression, for every i.
C4_ParametersBoundInOrder ==
    \A i \in TraceIdx :
        (/\ IsEv(i, "call") /\ trace[i].target # <<>>
         /\ Len(trace[i].argvals) = Len(Node(trace[i].target).params))
            => LET b == trace[i].argsDone + 2
                   ps == Node(trace[i].target).params
               IN  /\ b < i
                   /\ IsEv(b, "body") /\ trace[b].id = trace[i].target
                   /\ \A k \in 1..Len(ps) :
                         /\ ps[k] \in DOMAIN trace[b].env
                         /\ trace[b].env[ps[k]] = trace[i].argvals[k]

\* C5: every completed call, at any depth, leaves the environment as it
\* found it; and after every statement the environment is the one the
\* statement started from, plus the statement's own binding when it is a
\* define: exactly the defined names, each with its latest value.
C5_CallRestoresEnv ==
    /\ \A i \in TraceIdx : IsEv(i, "call") => trace[i].env = trace[i].env0
    /\ (err = "none" /\ ast # <<>>)
          => LET last == ast[Len(ast)]
             IN  env = IF last.kind = "Define"
                       THEN EnvSet(env0, last.identifier.name.s,
                                   LastExitValue(<<Len(ast), 2>>))
                       ELSE env0
    /\ err = "none" => DOMAIN env = DefinedNames

\* A call completed inside the body of another completed call, under a
\* top-level environment that is not empty.
C5_Witness ==
    /\ err = "none"
    /\ env # EmptyEnv
    /\ \E i \in TraceIdx, j \in TraceIdx :
          /\ i < j
          /\ IsEv(i, "call") /\ IsEv(j, "call")
          /\ trace[i].target # <<>> /\ trace[j].target # <<>>
          /\ trace[i].argsDone > trace[j].argsDone
          /\ trace[i].env0 # trace[j].env0
          /\ trace[j].env0 = env

\* The operands 1..n of the evaluation of a node that ended at exit event j
\* were each entered and left once, one after the other in source order,
\* before j.
OperandsInOrder(j, n) ==
    LET id == trace[j].id
        lo == StartOf(j)
        ent(k) == Between("enter", id \o <<k>>, lo, j)
        ext(k) == Between("exit", id \o <<k>>, lo, j)
    IN  /\ \A k \in 1..n :
              /\ Cardinality(ent(k)) = 1 /\ Cardinality(ext(k)) = 1
              /\ Only(ent(k)) < Only(ext(k))
        /\ \A k \in 1..(n - 1) : Only(ext(k)) < Only(ent(k + 1))

\* The value operand k had when the evaluation ending at j left it.
OperandValue(j, k) ==
    trace[Only(Between("exit", trace[j].id \o <<k>>, StartOf(j), j))].v

\* C6: every and/or that yields a value has evaluated all its operands in
\* source order and yields their logical AND/OR; every if that yields a
\* value has evaluated its condition, true branch and false branch in that
\* order and yields the value of the branch the condition selects.
C6_EagerLeftToRight ==
    \A j \in TraceIdx :
        IsEv(j, "exit") =>
            LET node == Node(trace[j].id)
                v == trace[j].v
                n == Len(node.operands)
                bools == \A k \in 1..n : OperandValue(j, k).t = "bool"
            IN  /\ (node.kind = "LogicalOp" /\ node.operator = "and") =>
                      /\ OperandsInOrder(j, n)
                      /\ Truthy(v) = (\A k \in 1..n : Truthy(OperandValue(j, k)))
                      /\ bools => v = BoolV(\A k \in 1..n : OperandValue(j, k).b)
                /\ (node.kind = "LogicalOp" /\ node.operator = "or") =>
                      /\ OperandsInOrder(j, n)
                      /\ Truthy(v) = (\E k \in 1..n : Truthy(OperandValue(j, k)))
                      /\ bools => v = BoolV(\E k \in 1..n : OperandValue(j, k).b)
                /\ node.kind = "If" =>
                      /\ OperandsInOrder(j, 3)
                      /\ Truthy(OperandValue(j, 1)) => v = OperandValue(j, 2)
                      /\ ~Truthy(OperandValue(j, 1)) => v = OperandValue(j, 3)

\* An and whose first operand is false yielded false after a call in its
\* second operand completed, and the statement printed it.
C6_Witness ==
    /\ err = "none"
    /\ \E j \in TraceIdx :
          /\ IsEv(j, "exit")
          /\ Node(trace[j].id).kind = "LogicalOp"
          /\ Node(trace[j].id).operator = "and"
          /\ OperandValue(j, 1) = BoolV(FALSE)
          /\ OperandValue(j, 2) = BoolV(TRUE)
          /\ trace[j].v = BoolV(FALSE)
          /\ \E c \in StartOf(j)..j : IsEv(c, "call") /\ trace[c].target # <<>>
    /\ out # <<>> /\ out[Len(out)] = <<"#f">>

\* C7: an identifier used as a value whose name is not bound in the current
\* environment ends the run with an error.
C7_UndefinedNameFails ==
    \A i \in TraceIdx :
        (/\ IsEv(i, "lookup") /\ ~trace[i].found
         /\ ~(Len(trace[i].id) = 2 /\ trace[i].id[2] = 1
              /\ ast[trace[i].id[1]].kind = "Define"))
            => err # "none"

\* C8: a call whose callee is a name that is absent from the environment
\* or bound to a value that is no function does not complete with a value
\* for the statement to go on with: the run ends with an error.
C8_UndefinedFunctionFails ==
    \A i \in TraceIdx :
        (/\ IsEv(i, "call") /\ NamedCallee(Node(trace[i].id))
         /\ trace[i].target = <<>>)
            => err # "none"

\* q is floor(a/b), for b # 0.
IsFloor(q, a, b) ==
    IF b > 0 THEN b * q <= a /\ a < b * q + b ELSE b * q >= a /\ a > b * q + b

IsArith(stmt) ==
    /\ stmt.kind = "BinaryOp" /\ stmt.operator \in {"/", "mod"}
    /\ stmt.left.kind = "Number" /\ stmt.left.value.t = "int"
    /\ stmt.right.kind = "Number" /\ stmt.right.value.t = "int"

\* C9: ( / a b ) yields floor(a/b) and ( mod a b ) yields a - b*floor(a/b),
\* which is zero or has the sign of b, for b # 0 of either sign; for b = 0
\* both end the run with an error and yield no value.
C9_FloorDivisionAndModulo ==
    \A k \in 1..Len(ast) :
        IsArith(ast[k]) =>
            LET a == ast[k].left.value.n
                b == ast[k].right.value.n
                v == val[<<k>>]
            IN  IF b = 0
                THEN err # "none" /\ k = Len(ast) /\ <<k>> \notin DOMAIN val
                ELSE /\ <<k>> \in DOMAIN val
                     /\ v.t = "int"
                     /\ ast[k].operator = "/" => IsFloor(v.n, a, b)
                     /\ ast[k].operator = "mod" =>
                           /\ \E q \in (0 - Abs(a) - 1)..(Abs(a) + 1) :
                                 IsFloor(q, a, b) /\ v.n = a - b * q
                           /\ v.n = 0 \/ ((v.n < 0) = (b < 0))

\* A division and a modulo whose operands differ in sign and do not divide
\* evenly have been evaluated: ( / -3 2 ) = -2 or ( mod 3 -2 ) = -1.
C9_Witness ==
    /\ err = "none"
    /\ \E k \in 1..Len(ast) :
          /\ IsArith(ast[k])
          /\ \/ /\ ast[k].operator = "/"
                /\ ast[k].left.value.n = 0 - 3 /\ ast[k].right.value.n = 2
                /\ val[<<k>>] = IntV(0 - 2)
             \/ /\ ast[k].operator = "mod"
                /\ ast[k].left.value.n = 3 /\ ast[k].right.value.n = 0 - 2
                /\ val[<<k>>] = IntV(0 - 1)

\* C10: a call written as a function literal with no parameters and no
\* arguments is a FunCallNode whose callee is that literal, and it yields
\* the value of the literal's body.
C10_EmptyLiteralCall ==
    \A i \in TraceIdx :
        IsEv(i, "call") =>
            LET call == Node(trace[i].id)
                lit == WrittenLiteral(call)
            IN  (/\ lit # NoLiteral
                 /\ lit.params = <<>>
                 /\ call.arguments.items = <<>>)
                    => /\ call.function.kind = "Fun"
                       /\ lit.body.kind = "Number" => trace[i].v = lit.body.value

====
